---- MODULE Spec2Model ----
(***************************************************************************)
(* Model of the useVideoProcessing hook                                    *)
(* (gist-ai-editor/lib/hooks/use-video-processing.ts) and of the API       *)
(* client it drives (lib/api/client.ts): one tracked media-processing job, *)
(* a push stream (WebSocket) and a pull poller (setInterval) feeding the   *)
(* same React state, the localStorage mirror, and the asynchronous         *)
(* requests whose continuations run on later turns.                        *)
(***************************************************************************)
EXTENDS Integers, Sequences, FiniteSets, TLC

\* ------------------------------------------------------------------ bounds
\* Number of submissions made when the hook is driven through more than one
\* (SpecResubmit).
MaxJobs == 2
\* Number of requests that may be awaiting their response at one time.
MaxInFlight == 2
\* Number of canonical stages, counted from PENDING, the backend walks a
\* job through and the stream reports before the job turns terminal.
MaxStage == 3

\* --------------------------------------------------------------- constants
null == "null"

\* The pipeline's stages in canonical order (the STAGES table of the
\* progress view, followed by the terminal success stage).
CanonicalOrder ==
  <<"PENDING", "INGESTING", "TRANSCRIBING", "UNDERSTANDING", "GROUPING", "RANKING", "COMPLETE">>

\* getStorageKey(projectId)
getStorageKey(p) ==
  IF p # null THEN "gist-ai-video-processing-" \o p ELSE "gist-ai-video-processing"

Scopes == {"pA", "pB"}
StorageKeys == {getStorageKey(p) : p \in Scopes \cup {null}}

VARIABLES
  \* React state of the hook
  videoId, videoUrl, videoStreamUrl, status, progress, currentStage,
  message, ideas, error,
  \* refs
  wsRef, pollingIntervalRef, videoIdRef,
  \* hook argument, whether the consuming view holds the hook ("initial"
  \* before its first effects, "mounted", "unmounted"), and what the mount
  \* effect read under the scope key
  projectId, view, stored,
  \* browser: open sockets, active intervals, localStorage, clock, and the
  \* console as far as the two channel catch handlers write to it (the
  \* parse error of ws.onmessage, the polling error of pollStatus)
  sockets, intervals, localStorage, now, console,
  \* requests awaiting their response
  calls,
  \* backend: the jobs it has created and their stored status
  srv

hookState == <<videoId, videoUrl, videoStreamUrl, status, progress, currentStage,
               message, ideas, error>>
refs == <<wsRef, pollingIntervalRef, videoIdRef>>
browser == <<sockets, intervals, localStorage, now, console>>
host == <<projectId, view, stored>>
vars == <<hookState, refs, host, browser, calls, srv>>

\* ----------------------------------------------------------------- helpers
VideoIdOf(n) == "v" \o ToString(n)

NoRecord == [videoId |-> null, videoUrl |-> null, status |-> null, progress |-> 0,
             currentStage |-> null, projectId |-> null, timestamp |-> 0]

\* isProcessing / isComplete, derived on every render
isProcessing == status # null /\ status # "complete" /\ status # "failed"
isComplete == status = "complete"

\* The persist effect: runs after a render in which one of its dependencies
\* changed. ls is localStorage as the handler left it.
PersistEffect(ls, vId, vUrl, st, pr, cs, pid) ==
  LET storageKey == getStorageKey(pid) IN
  IF vId # null /\ st # null /\ st # "complete" /\ st # "failed"
  THEN [ls EXCEPT ![storageKey] =
          [videoId |-> vId, videoUrl |-> IF vUrl # null THEN vUrl ELSE "",
           status |-> st, progress |-> pr,
           currentStage |-> IF cs # null THEN cs ELSE "",
           projectId |-> pid, timestamp |-> now]]
  ELSE IF st = "complete" \/ st = "failed"
  THEN [ls EXCEPT ![storageKey] = NoRecord]
  ELSE ls

\* The persist effect with progress missing from its dependency list.
SettleWithoutPercentDep(ls) ==
  localStorage' =
    IF /\ view' = "mounted"
       /\ <<videoId', videoUrl', status', currentStage', projectId'>>
          # <<videoId, videoUrl, status, currentStage, projectId>>
    THEN PersistEffect(ls, videoId', videoUrl', status', progress', currentStage', projectId')
    ELSE ls

\* localStorage after the effects of one turn have settled: the handler's
\* own writes (ls) first, then the persist effect if a dependency changed.
\* Effects run only for a mounted view.
Settle(ls) ==
  localStorage' =
    IF /\ view' = "mounted"
       /\ <<videoId', videoUrl', status', progress', currentStage', projectId'>>
          # <<videoId, videoUrl, status, progress, currentStage, projectId>>
    THEN PersistEffect(ls, videoId', videoUrl', status', progress', currentStage', projectId')
    ELSE ls

\* -------------------------------------------------------------------- Init
\* The hook after its first render for project pA, with nothing stored and
\* no job known to the backend.
Init ==
  /\ videoId = null /\ videoUrl = null /\ videoStreamUrl = null
  /\ status = null /\ progress = 0 /\ currentStage = null
  /\ message = null /\ ideas = null /\ error = null
  /\ wsRef = null /\ pollingIntervalRef = null /\ videoIdRef = null
  /\ projectId = "pA" /\ view = "mounted" /\ stored = NoRecord
  /\ sockets = {} /\ intervals = {}
  /\ localStorage = [k \in StorageKeys |-> NoRecord]
  /\ now = 0 /\ console = {}
  /\ calls = {}
  /\ srv = [v \in {} |-> 0]

\* ------------------------------------------------------------------- reset
\* reset() written as the unmount cleanup is: handles closed, refs left set.
resetLeavesRefs ==
  /\ videoId' = null /\ videoIdRef' = null
  /\ videoUrl' = null /\ videoStreamUrl' = null
  /\ status' = null /\ progress' = 0 /\ currentStage' = null
  /\ message' = null /\ ideas' = null /\ error' = null
  /\ sockets' = IF wsRef # null THEN sockets \ {wsRef} ELSE sockets
  /\ intervals' = IF pollingIntervalRef # null THEN intervals \ {pollingIntervalRef}
                  ELSE intervals
  /\ UNCHANGED <<wsRef, pollingIntervalRef, host>>
  /\ Settle([localStorage EXCEPT ![getStorageKey(projectId)] = NoRecord])
  /\ UNCHANGED <<now, console, calls, srv>>

reset ==
  /\ videoId' = null /\ videoIdRef' = null
  /\ videoUrl' = null /\ videoStreamUrl' = null
  /\ status' = null /\ progress' = 0 /\ currentStage' = null
  /\ message' = null /\ ideas' = null /\ error' = null
  /\ sockets' = IF wsRef # null THEN sockets \ {wsRef} ELSE sockets
  /\ wsRef' = null
  /\ intervals' = IF pollingIntervalRef # null THEN intervals \ {pollingIntervalRef}
                  ELSE intervals
  /\ pollingIntervalRef' = null
  /\ UNCHANGED host
  /\ Settle([localStorage EXCEPT ![getStorageKey(projectId)] = NoRecord])
  /\ UNCHANGED <<now, console, calls, srv>>

\* ----------------------------------------------------------------- backend
\* What the backend stores for a job (videos.status, videos.progress).
StagePercent(i) == (i - 1) * 15

SrvIndex(v) ==
  CHOOSE i \in 1..Len(CanonicalOrder) : CanonicalOrder[i] = srv[v].status

\* The pipeline moves a job to its next stage, or finishes it.
SrvAdvance(v) ==
  /\ v \in DOMAIN srv
  /\ srv[v].status \notin {"COMPLETE", "FAILED"}
  /\ \/ /\ SrvIndex(v) < MaxStage
        /\ srv' = [srv EXCEPT ![v] = [status |-> CanonicalOrder[SrvIndex(v) + 1],
                                      progress |-> StagePercent(SrvIndex(v) + 1)]]
     \/ /\ SrvIndex(v) = MaxStage
        /\ srv' = [srv EXCEPT ![v] = [status |-> "COMPLETE", progress |-> 100]]
  /\ UNCHANGED <<hookState, refs, host, browser, calls>>

\* The pipeline fails a job.
SrvFail(v) ==
  /\ v \in DOMAIN srv
  /\ srv[v].status \notin {"COMPLETE", "FAILED"}
  /\ srv' = [srv EXCEPT ![v].status = "FAILED"]
  /\ UNCHANGED <<hookState, refs, host, browser, calls>>

\* StatusResponse.status as the hook reads it: the terminal stages are the
\* lower-case tokens it compares against, the others the stage names.
StatusToken(s) ==
  IF s = "COMPLETE" THEN "complete" ELSE IF s = "FAILED" THEN "failed" ELSE s

\* A request awaiting its response. resp holds what the response will carry.
Call(kind, vid, src, resp) == [kind |-> kind, vid |-> vid, src |-> src, resp |-> resp]
NoResp == [status |-> null, progress |-> 0, current_stage |-> null]
HasRoom(n) == Cardinality(calls) + n <= MaxInFlight
\* Submissions made so far: the jobs created and the create-job requests
\* still awaiting their response.
Submitted == Cardinality(DOMAIN srv) + Cardinality({c \in calls : c.kind = "submit"})

\* fetchVideoMetadata(vid): the timeline request it issues
TimelineCall(vid) == Call("timeline", vid, "hook", NoResp)

\* ------------------------------------------------------------- submitVideo
\* submitVideo up to its await, without setProgress(0).
submitVideoKeepsPercent ==
  /\ HasRoom(1)
  /\ error' = null /\ progress' = progress /\ ideas' = null /\ videoStreamUrl' = null
  /\ videoUrl' = "url" /\ status' = "PENDING" /\ currentStage' = "PENDING"
  /\ message' = "Submitting video..."
  /\ calls' = calls \cup {Call("submit", null, "hook", NoResp)}
  /\ UNCHANGED <<videoId, refs, host, sockets, intervals, now, console, srv>>
  /\ Settle(localStorage)

\* submitVideo up to its await: derived state reset, stage PENDING, the
\* create-job request issued.
submitVideo ==
  /\ HasRoom(1)
  /\ error' = null /\ progress' = 0 /\ ideas' = null /\ videoStreamUrl' = null
  /\ videoUrl' = "url" /\ status' = "PENDING" /\ currentStage' = "PENDING"
  /\ message' = "Submitting video..."
  /\ calls' = calls \cup {Call("submit", null, "hook", NoResp)}
  /\ UNCHANGED <<videoId, refs, host, sockets, intervals, now, console, srv>>
  /\ Settle(localStorage)

\* The create-job response arrives and connectWebSocket is called outside a
\* try of its own: when it throws, the catch of submitVideo takes over.
submitVideoOpenUncaught(c, wsOk) ==
  /\ c \in calls /\ c.kind = "submit"
  /\ LET vid == VideoIdOf(Cardinality(DOMAIN srv) + 1) IN
     /\ srv' = srv @@ (vid :> [status |-> "PENDING", progress |-> 0])
     /\ videoId' = vid /\ videoIdRef' = vid
     /\ message' = "msg"
     /\ IF wsOk
        THEN /\ status' = "PENDING" /\ error' = error
             /\ wsRef' = vid /\ sockets' = sockets \cup {vid}
             /\ pollingIntervalRef' = vid /\ intervals' = intervals \cup {vid}
        ELSE /\ status' = "failed" /\ error' = "Failed to submit video"
             /\ UNCHANGED <<wsRef, sockets, pollingIntervalRef, intervals>>
  /\ calls' = calls \ {c}
  /\ UNCHANGED <<videoUrl, videoStreamUrl, progress, currentStage, ideas,
                 host, now, console>>
  /\ Settle(localStorage)

\* The create-job response arrives. connectWebSocket either returns a socket
\* (wsOk) or throws, which is caught; the poll interval is started either way.
submitVideoResolved(c, wsOk) ==
  /\ c \in calls /\ c.kind = "submit"
  /\ LET vid == VideoIdOf(Cardinality(DOMAIN srv) + 1) IN
     /\ srv' = srv @@ (vid :> [status |-> "PENDING", progress |-> 0])
     /\ videoId' = vid /\ videoIdRef' = vid
     /\ status' = "PENDING" /\ message' = "msg"
     /\ IF wsOk THEN wsRef' = vid /\ sockets' = sockets \cup {vid}
                ELSE UNCHANGED <<wsRef, sockets>>
     /\ pollingIntervalRef' = vid /\ intervals' = intervals \cup {vid}
  /\ calls' = calls \ {c}
  /\ UNCHANGED <<videoUrl, videoStreamUrl, progress, currentStage, ideas, error,
                 host, now, console>>
  /\ Settle(localStorage)

\* The create-job request fails and the catch sets the error only.
submitVideoRejectedKeepsStage(c) ==
  /\ c \in calls /\ c.kind = "submit"
  /\ error' = "Failed to submit video" /\ status' = status
  /\ calls' = calls \ {c}
  /\ UNCHANGED <<videoId, videoUrl, videoStreamUrl, progress, currentStage, message,
                 ideas, refs, host, sockets, intervals, now, console, srv>>
  /\ Settle(localStorage)

\* The create-job request fails.
submitVideoRejected(c) ==
  /\ c \in calls /\ c.kind = "submit"
  /\ error' = "Failed to submit video" /\ status' = "failed"
  /\ calls' = calls \ {c}
  /\ UNCHANGED <<videoId, videoUrl, videoStreamUrl, progress, currentStage, message,
                 ideas, refs, host, sockets, intervals, now, console, srv>>
  /\ Settle(localStorage)

\* -------------------------------------------------------------- pollStatus
\* An interval fires: pollStatus(vid) issues the status request. The
\* response carries what the backend stores at that moment.
pollTick(i) ==
  /\ i \in intervals
  /\ HasRoom(1)
  /\ calls' = calls \cup
       {Call("status", i, "poll",
             [status |-> StatusToken(srv[i].status), progress |-> srv[i].progress,
              current_stage |-> srv[i].status])}
  /\ UNCHANGED <<hookState, refs, host, browser, srv>>

\* The status response arrives, with the `failed` branch stopping the
\* interval without setError.
pollStatusResolvedSilentFailure(c) ==
  /\ c \in calls /\ c.kind = "status" /\ c.src = "poll"
  /\ status' = c.resp.status /\ progress' = c.resp.progress
  /\ currentStage' = c.resp.current_stage /\ message' = "msg"
  /\ LET early == IF c.resp.current_stage = "TRANSCRIBING" /\ videoStreamUrl = null
                  THEN {TimelineCall(c.vid)} ELSE {}
         fetch == IF c.resp.status = "complete"
                  THEN {Call("ideas", c.vid, "poll", NoResp)} ELSE {}
     IN calls' = (calls \ {c}) \cup early \cup fetch
  /\ IF c.resp.status = "failed"
     THEN /\ error' = error
          /\ intervals' = IF pollingIntervalRef # null
                          THEN intervals \ {pollingIntervalRef} ELSE intervals
          /\ pollingIntervalRef' = null
     ELSE UNCHANGED <<error, intervals, pollingIntervalRef>>
  /\ UNCHANGED <<videoId, videoUrl, videoStreamUrl, ideas, wsRef, videoIdRef,
                 host, sockets, now, console, srv>>
  /\ Settle(localStorage)

\* The status response arrives, and the early metadata fetch is made for
\* every response in TRANSCRIBING, whether or not a stream url is held.
pollStatusResolvedAlwaysPrefetches(c) ==
  /\ c \in calls /\ c.kind = "status" /\ c.src = "poll"
  /\ status' = c.resp.status /\ progress' = c.resp.progress
  /\ currentStage' = c.resp.current_stage /\ message' = "msg"
  /\ LET early == IF c.resp.current_stage = "TRANSCRIBING"
                  THEN {TimelineCall(c.vid)} ELSE {}
         fetch == IF c.resp.status = "complete"
                  THEN {Call("ideas", c.vid, "poll", NoResp)} ELSE {}
     IN calls' = (calls \ {c}) \cup early \cup fetch
  /\ IF c.resp.status = "failed"
     THEN /\ error' = "Processing failed"
          /\ intervals' = IF pollingIntervalRef # null
                          THEN intervals \ {pollingIntervalRef} ELSE intervals
          /\ pollingIntervalRef' = null
     ELSE UNCHANGED <<error, intervals, pollingIntervalRef>>
  /\ UNCHANGED <<videoId, videoUrl, videoStreamUrl, ideas, wsRef, videoIdRef,
                 host, sockets, now, console, srv>>
  /\ Settle(localStorage)

\* The status response arrives, in any order relative to other responses.
pollStatusResolved(c) ==
  /\ c \in calls /\ c.kind = "status" /\ c.src = "poll"
  /\ status' = c.resp.status /\ progress' = c.resp.progress
  /\ currentStage' = c.resp.current_stage /\ message' = "msg"
  /\ LET early == IF c.resp.current_stage = "TRANSCRIBING" /\ videoStreamUrl = null
                  THEN {TimelineCall(c.vid)} ELSE {}
         fetch == IF c.resp.status = "complete"
                  THEN {Call("ideas", c.vid, "poll", NoResp)} ELSE {}
     IN calls' = (calls \ {c}) \cup early \cup fetch
  /\ IF c.resp.status = "failed"
     THEN /\ error' = "Processing failed"
          /\ intervals' = IF pollingIntervalRef # null
                          THEN intervals \ {pollingIntervalRef} ELSE intervals
          /\ pollingIntervalRef' = null
     ELSE UNCHANGED <<error, intervals, pollingIntervalRef>>
  /\ UNCHANGED <<videoId, videoUrl, videoStreamUrl, ideas, wsRef, videoIdRef,
                 host, sockets, now, console, srv>>
  /\ Settle(localStorage)

\* The status request fails, and the catch clears the interval as the
\* `failed` branch does.
pollStatusRejectedStops(c) ==
  /\ c \in calls /\ c.kind = "status" /\ c.src = "poll"
  /\ calls' = calls \ {c}
  /\ console' = console \cup {"Failed to poll status:"}
  /\ intervals' = IF pollingIntervalRef # null
                  THEN intervals \ {pollingIntervalRef} ELSE intervals
  /\ pollingIntervalRef' = null
  /\ UNCHANGED <<hookState, wsRef, videoIdRef, host, sockets, localStorage, now, srv>>

\* The status request fails, and the catch reports it in the error field.
pollStatusRejectedSetsError(c) ==
  /\ c \in calls /\ c.kind = "status" /\ c.src = "poll"
  /\ calls' = calls \ {c}
  /\ console' = console \cup {"Failed to poll status:"}
  /\ error' = "Failed to poll status"
  /\ UNCHANGED <<videoId, videoUrl, videoStreamUrl, status, progress, currentStage,
                 message, ideas, refs, host, sockets, intervals, now, srv>>
  /\ Settle(localStorage)

\* The status request fails: caught and logged.
pollStatusRejected(c) ==
  /\ c \in calls /\ c.kind = "status" /\ c.src = "poll"
  /\ calls' = calls \ {c}
  /\ console' = console \cup {"Failed to poll status:"}
  /\ UNCHANGED <<hookState, refs, host, sockets, intervals, localStorage, now, srv>>

\* pollStatus after its await of getVideoIdeas: ideas stored, metadata
\* fetched, interval cleared.
pollIdeasResolved(c) ==
  /\ c \in calls /\ c.kind = "ideas" /\ c.src = "poll"
  /\ ideas' = c.vid
  /\ calls' = (calls \ {c}) \cup {TimelineCall(c.vid)}
  /\ intervals' = IF pollingIntervalRef # null
                  THEN intervals \ {pollingIntervalRef} ELSE intervals
  /\ pollingIntervalRef' = null
  /\ UNCHANGED <<videoId, videoUrl, videoStreamUrl, status, progress, currentStage,
                 message, error, wsRef, videoIdRef, host, sockets, now, console, srv>>
  /\ Settle(localStorage)

\* getVideoIdeas rejects inside pollStatus: the catch logs it, and the rest
\* of the branch is skipped.
pollIdeasRejected(c) ==
  /\ c \in calls /\ c.kind = "ideas" /\ c.src = "poll"
  /\ calls' = calls \ {c}
  /\ UNCHANGED <<hookState, refs, host, browser, srv>>

\* ----------------------------------------------------------- event stream
\* The decoded events a socket may deliver to its onMessage handler.
StreamEvents ==
  {[type |-> "progress", stage |-> CanonicalOrder[i], progress |-> StagePercent(i),
    message |-> "msg"] : i \in 1..MaxStage}
  \cup {[type |-> "stage_complete", stage |-> CanonicalOrder[i], progress |-> 0,
         message |-> null] : i \in 2..MaxStage}
  \cup {[type |-> t, stage |-> null, progress |-> 0, message |-> "msg"] :
          t \in {"video_ready", "complete"}}
  \cup {[type |-> "error", stage |-> null, progress |-> 0, message |-> m] :
          m \in {"msg", null}}

\* handleWebSocketMessage(messageData) with a `video_ready` case that only
\* sets the message.
handleWebSocketMessageReadyNoFetch(messageData) ==
  LET currentVideoId == videoIdRef IN
  CASE messageData.type = "progress" ->
         /\ status' = messageData.stage
         /\ progress' = IF messageData.progress # 0 THEN messageData.progress ELSE 0
         /\ currentStage' = messageData.stage
         /\ message' = messageData.message
         /\ UNCHANGED <<videoId, videoUrl, videoStreamUrl, ideas, error, calls>>
    [] messageData.type = "video_ready" ->
         /\ calls' = calls
         /\ message' = IF messageData.message # null THEN messageData.message
                       ELSE "Video ready for playback"
         /\ UNCHANGED <<videoId, videoUrl, videoStreamUrl, status, progress,
                        currentStage, ideas, error>>
    [] messageData.type = "stage_complete" ->
         /\ currentStage' = messageData.stage
         /\ status' = messageData.stage
         /\ UNCHANGED <<videoId, videoUrl, videoStreamUrl, progress, message, ideas,
                        error, calls>>
    [] messageData.type = "complete" ->
         /\ status' = "complete"
         /\ progress' = 100
         /\ message' = messageData.message
         /\ currentStage' = "complete"
         /\ IF currentVideoId # null
            THEN /\ HasRoom(2)
                 /\ calls' = calls \cup {Call("ideas", currentVideoId, "ws", NoResp),
                                         TimelineCall(currentVideoId)}
            ELSE calls' = calls
         /\ UNCHANGED <<videoId, videoUrl, videoStreamUrl, ideas, error>>
    [] messageData.type = "error" ->
         /\ status' = "failed"
         /\ error' = IF messageData.message # null THEN messageData.message
                     ELSE "Processing failed"
         /\ message' = messageData.message
         /\ UNCHANGED <<videoId, videoUrl, videoStreamUrl, progress, currentStage,
                        ideas, calls>>

\* handleWebSocketMessage(messageData); the job id is read through videoIdRef.
handleWebSocketMessage(messageData) ==
  LET currentVideoId == videoIdRef IN
  CASE messageData.type = "progress" ->
         /\ status' = messageData.stage
         /\ progress' = IF messageData.progress # 0 THEN messageData.progress ELSE 0
         /\ currentStage' = messageData.stage
         /\ message' = messageData.message
         /\ UNCHANGED <<videoId, videoUrl, videoStreamUrl, ideas, error, calls>>
    [] messageData.type = "video_ready" ->
         /\ IF currentVideoId # null
            THEN HasRoom(1) /\ calls' = calls \cup {TimelineCall(currentVideoId)}
            ELSE calls' = calls
         /\ message' = IF messageData.message # null THEN messageData.message
                       ELSE "Video ready for playback"
         /\ UNCHANGED <<videoId, videoUrl, videoStreamUrl, status, progress,
                        currentStage, ideas, error>>
    [] messageData.type = "stage_complete" ->
         /\ currentStage' = messageData.stage
         /\ status' = messageData.stage
         /\ UNCHANGED <<videoId, videoUrl, videoStreamUrl, progress, message, ideas,
                        error, calls>>
    [] messageData.type = "complete" ->
         /\ status' = "complete"
         /\ progress' = 100
         /\ message' = messageData.message
         /\ currentStage' = "complete"
         /\ IF currentVideoId # null
            THEN /\ HasRoom(2)
                 /\ calls' = calls \cup {Call("ideas", currentVideoId, "ws", NoResp),
                                         TimelineCall(currentVideoId)}
            ELSE calls' = calls
         /\ UNCHANGED <<videoId, videoUrl, videoStreamUrl, ideas, error>>
    [] messageData.type = "error" ->
         /\ status' = "failed"
         /\ error' = IF messageData.message # null THEN messageData.message
                     ELSE "Processing failed"
         /\ message' = messageData.message
         /\ UNCHANGED <<videoId, videoUrl, videoStreamUrl, progress, currentStage,
                        ideas, calls>>

\* ws.onmessage of an open socket s with a message that decodes to e.
wsMessage(s, e) ==
  /\ s \in sockets
  /\ handleWebSocketMessage(e)
  /\ UNCHANGED <<refs, host, sockets, intervals, now, console, srv>>
  /\ Settle(localStorage)

\* ws.onmessage of an open socket s with data JSON.parse rejects, written
\* with the socket closed in the catch.
wsMessageUndecodableCloses(s) ==
  /\ s \in sockets
  /\ console' = console \cup {"Failed to parse WebSocket message:"}
  /\ sockets' = sockets \ {s}
  /\ UNCHANGED <<hookState, refs, host, intervals, localStorage, now, calls, srv>>

\* ws.onmessage of an open socket s with data JSON.parse rejects: the catch
\* logs it and onMessage is not called.
wsMessageUndecodable(s) ==
  /\ s \in sockets
  /\ console' = console \cup {"Failed to parse WebSocket message:"}
  /\ UNCHANGED <<hookState, refs, host, sockets, intervals, localStorage, now, calls, srv>>

\* getVideoIdeas(...).then of the `complete` event
wsIdeasResolved(c) ==
  /\ c \in calls /\ c.kind = "ideas" /\ c.src = "ws"
  /\ ideas' = c.vid
  /\ calls' = calls \ {c}
  /\ UNCHANGED <<videoId, videoUrl, videoStreamUrl, status, progress, currentStage,
                 message, error, refs, host, sockets, intervals, now, console, srv>>
  /\ Settle(localStorage)

\* getVideoIdeas(...).catch of the `complete` event
wsIdeasRejected(c) ==
  /\ c \in calls /\ c.kind = "ideas" /\ c.src = "ws"
  /\ calls' = calls \ {c}
  /\ UNCHANGED <<hookState, refs, host, browser, srv>>

\* ------------------------------------------------------ fetchVideoMetadata
\* getVideoTimeline resolves: stream url, duration and title are stored
\* together (videoStreamUrl stands for the three).
fetchVideoMetadataResolved(c) ==
  /\ c \in calls /\ c.kind = "timeline"
  /\ videoStreamUrl' = c.vid
  /\ calls' = calls \ {c}
  /\ UNCHANGED <<videoId, videoUrl, status, progress, currentStage, message, ideas,
                 error, refs, host, sockets, intervals, now, console, srv>>
  /\ Settle(localStorage)

\* getVideoTimeline rejects: caught and logged.
fetchVideoMetadataRejected(c) ==
  /\ c \in calls /\ c.kind = "timeline"
  /\ calls' = calls \ {c}
  /\ UNCHANGED <<hookState, refs, host, browser, srv>>

\* ------------------------------------------------------------ mount effect
\* 24 hours, the age beyond which restoreState drops a record.
DayMs == 24 * 60 * 60 * 1000

\* The age test of restoreState with a limit of seven days.
isStaleAfterAWeek(state) == now - state.timestamp > 7 * DayMs

\* age > 24 * 60 * 60 * 1000
isStale(state) == now - state.timestamp > DayMs

\* The scope test comparing the record with itself.
isForeignToItself(data, pid) == data.projectId # data.projectId

\* data.projectId !== projectId, as clearStorageIfNeeded and restoreState
\* both test it; pid is the projectId of the render the effect belongs to.
isForeign(data, pid) == data.projectId # pid

\* clearStorageIfNeeded() testing the lower-case terminal tokens.
clearStorageIfLowerCase(ls, pid) ==
  LET storageKey == getStorageKey(pid)
      data == ls[storageKey]
  IN IF data # NoRecord
        /\ (data.status = "complete" \/ data.status = "failed" \/ isForeign(data, pid))
     THEN [ls EXCEPT ![storageKey] = NoRecord]
     ELSE ls

\* clearStorageIfNeeded(): the record under the scope key is removed when its
\* status is one of the upper-case terminal tokens or its projectId differs.
clearStorageIfNeeded(ls, pid) ==
  LET storageKey == getStorageKey(pid)
      data == ls[storageKey]
  IN IF data # NoRecord
        /\ (data.status = "COMPLETE" \/ data.status = "FAILED" \/ isForeign(data, pid))
     THEN [ls EXCEPT ![storageKey] = NoRecord]
     ELSE ls

\* The guard of loadExistingVideo without its look at the store.
needsBackendQueryUnstored(ls, pid) == pid # null

\* projectId && !stored, the guard of loadExistingVideo.
needsBackendQuery(ls, pid) == pid # null /\ ls[getStorageKey(pid)] = NoRecord

\* What a status request for job v is answered with, read from the backend
\* when the request is issued.
StatusOf(v) ==
  [status |-> StatusToken(srv[v].status), progress |-> srv[v].progress,
   current_stage |-> srv[v].status]

\* The body of the mount effect for the render whose projectId is pid, run on
\* the store ls: clearStorageIfNeeded(), then restoreState() and
\* loadExistingVideo() each up to its first await; the persist effect follows
\* when restoreState changed the state.
mountEffect(pid, ls) ==
  LET storageKey == getStorageKey(pid)
      ls1 == clearStorageIfNeeded(ls, pid)
      state == ls1[storageKey]
      drop == state # NoRecord /\ (isStale(state) \/ isForeign(state, pid))
      restore == state # NoRecord /\ ~drop
      ls2 == IF drop THEN [ls1 EXCEPT ![storageKey] = NoRecord] ELSE ls1
      query == needsBackendQuery(ls2, pid)
  IN /\ IF restore
        THEN /\ videoId' = state.videoId /\ videoIdRef' = state.videoId
             /\ videoUrl' = state.videoUrl /\ status' = state.status
             /\ progress' = state.progress /\ currentStage' = state.currentStage
             /\ message' = "Reconnecting to video processing..."
        ELSE UNCHANGED <<videoId, videoIdRef, videoUrl, status, progress,
                         currentStage, message>>
     /\ calls' = calls
          \cup (IF restore
                THEN {Call("restoreStatus", state.videoId, "mount",
                           IF state.videoId \in DOMAIN srv THEN StatusOf(state.videoId)
                           ELSE NoResp)}
                ELSE {})
          \cup (IF query THEN {Call("details", null, "mount", NoResp)} ELSE {})
     /\ localStorage' =
          IF <<videoId', videoUrl', status', progress', currentStage'>>
             # <<videoId, videoUrl, status, progress, currentStage>>
          THEN PersistEffect(ls2, videoId', videoUrl', status', progress', currentStage', pid)
          ELSE ls2

\* The first commit of a fresh view: the persist effect finds no job to write,
\* then the mount effect runs.
mount ==
  /\ view = "initial"
  /\ view' = "mounted" /\ projectId' = projectId
  /\ stored' = localStorage[getStorageKey(projectId)]
  /\ mountEffect(projectId, localStorage)
  /\ UNCHANGED <<videoStreamUrl, ideas, error, wsRef, pollingIntervalRef, sockets,
                 intervals, now, console, srv>>

\* The page's project parameter changes to project q while the view stays
\* mounted: the hook re-renders with projectId q and the effects that depend
\* on projectId run in the order they are declared, the persist effect with
\* the state the hook holds, then the mount effect. Neither has a cleanup,
\* and the channels of the tracked job stay as they are.
changeScope(q) ==
  /\ view = "mounted" /\ q \in Scopes /\ q # projectId
  /\ projectId' = q /\ view' = view
  /\ LET ls0 == PersistEffect(localStorage, videoId, videoUrl, status, progress,
                              currentStage, q)
     IN /\ stored' = ls0[getStorageKey(q)]
        /\ mountEffect(q, ls0)
  /\ UNCHANGED <<videoStreamUrl, ideas, error, wsRef, pollingIntervalRef, sockets,
                 intervals, now, console, srv>>

\* restoreState after its await of getVideoStatus, without setProgress: the
\* persisted percent stays on display.
restoreStatusKeepsPercent(c, wsOk) ==
  /\ c \in calls /\ c.kind = "restoreStatus" /\ c.vid \in DOMAIN srv
  /\ status' = c.resp.status /\ progress' = progress
  /\ currentStage' = c.resp.current_stage /\ message' = "msg"
  /\ UNCHANGED <<videoId, videoUrl, videoStreamUrl, ideas, videoIdRef, host, now, console, srv>>
  /\ LET storageKey == getStorageKey(projectId) IN
     IF c.resp.status = "complete"
     THEN /\ calls' = (calls \ {c}) \cup {Call("restoreIdeas", c.vid, "mount", NoResp)}
          /\ UNCHANGED <<error, wsRef, pollingIntervalRef, sockets, intervals>>
          /\ Settle(localStorage)
     ELSE IF c.resp.status = "failed"
     THEN /\ error' = "Processing failed"
          /\ calls' = calls \ {c}
          /\ UNCHANGED <<wsRef, pollingIntervalRef, sockets, intervals>>
          /\ Settle([localStorage EXCEPT ![storageKey] = NoRecord])
     ELSE /\ IF wsOk THEN wsRef' = c.vid /\ sockets' = sockets \cup {c.vid}
                     ELSE UNCHANGED <<wsRef, sockets>>
          /\ pollingIntervalRef' = c.vid /\ intervals' = intervals \cup {c.vid}
          /\ calls' = calls \ {c}
          /\ UNCHANGED error
          /\ Settle(localStorage)

\* restoreState after its await of getVideoStatus.
restoreStatusResolved(c, wsOk) ==
  /\ c \in calls /\ c.kind = "restoreStatus" /\ c.vid \in DOMAIN srv
  /\ status' = c.resp.status /\ progress' = c.resp.progress
  /\ currentStage' = c.resp.current_stage /\ message' = "msg"
  /\ UNCHANGED <<videoId, videoUrl, videoStreamUrl, ideas, videoIdRef, host, now, console, srv>>
  /\ LET storageKey == getStorageKey(projectId) IN
     IF c.resp.status = "complete"
     THEN /\ calls' = (calls \ {c}) \cup {Call("restoreIdeas", c.vid, "mount", NoResp)}
          /\ UNCHANGED <<error, wsRef, pollingIntervalRef, sockets, intervals>>
          /\ Settle(localStorage)
     ELSE IF c.resp.status = "failed"
     THEN /\ error' = "Processing failed"
          /\ calls' = calls \ {c}
          /\ UNCHANGED <<wsRef, pollingIntervalRef, sockets, intervals>>
          /\ Settle([localStorage EXCEPT ![storageKey] = NoRecord])
     ELSE /\ IF wsOk THEN wsRef' = c.vid /\ sockets' = sockets \cup {c.vid}
                     ELSE UNCHANGED <<wsRef, sockets>>
          /\ pollingIntervalRef' = c.vid /\ intervals' = intervals \cup {c.vid}
          /\ calls' = calls \ {c}
          /\ UNCHANGED error
          /\ Settle(localStorage)

\* A request of restoreState rejects (the status pull, the ideas list or the
\* timeline): the catch removes the record.
restoreRejected(c) ==
  /\ c \in calls /\ c.kind \in {"restoreStatus", "restoreIdeas", "restoreTimeline"}
  /\ calls' = calls \ {c}
  /\ UNCHANGED <<hookState, refs, host, sockets, intervals, now, console, srv>>
  /\ Settle([localStorage EXCEPT ![getStorageKey(projectId)] = NoRecord])

\* restoreState after its await of getVideoIdeas.
restoreIdeasResolved(c) ==
  /\ c \in calls /\ c.kind = "restoreIdeas"
  /\ ideas' = c.vid
  /\ calls' = (calls \ {c}) \cup {Call("restoreTimeline", c.vid, "mount", NoResp)}
  /\ UNCHANGED <<videoId, videoUrl, videoStreamUrl, status, progress, currentStage,
                 message, error, refs, host, sockets, intervals, now, console, srv>>
  /\ Settle(localStorage)

\* restoreState after its await of getVideoTimeline.
restoreTimelineResolved(c) ==
  /\ c \in calls /\ c.kind = "restoreTimeline"
  /\ videoStreamUrl' = c.vid
  /\ calls' = calls \ {c}
  /\ UNCHANGED <<videoId, videoUrl, status, progress, currentStage, message, ideas,
                 error, refs, host, sockets, intervals, now, console, srv>>
  /\ Settle([localStorage EXCEPT ![getStorageKey(projectId)] = NoRecord])

\* loadExistingVideo after its await of getProjectDetails, answered with the
\* project's video v as the backend stores it (upper-case status tokens).
loadExistingVideoResolved(c, v, wsOk) ==
  /\ c \in calls /\ c.kind = "details" /\ v \in DOMAIN srv
  /\ LET video == srv[v] IN
     /\ videoId' = v /\ videoIdRef' = v
     /\ status' = video.status /\ progress' = video.progress
     /\ currentStage' = video.status
     /\ IF video.status = "COMPLETE"
        THEN /\ message' = "Video loaded" /\ ideas' = v
             /\ calls' = (calls \ {c}) \cup {Call("detailsTimeline", v, "mount", NoResp)}
             /\ UNCHANGED <<error, wsRef, pollingIntervalRef, sockets, intervals>>
        ELSE IF video.status = "FAILED"
        THEN /\ error' = "Processing failed" /\ message' = "Processing failed"
             /\ calls' = calls \ {c}
             /\ UNCHANGED <<ideas, wsRef, pollingIntervalRef, sockets, intervals>>
        ELSE /\ message' = "Reconnecting to video processing..."
             /\ IF wsOk THEN wsRef' = v /\ sockets' = sockets \cup {v}
                        ELSE UNCHANGED <<wsRef, sockets>>
             /\ pollingIntervalRef' = v /\ intervals' = intervals \cup {v}
             /\ calls' = calls \ {c}
             /\ UNCHANGED <<ideas, error>>
  /\ UNCHANGED <<videoUrl, videoStreamUrl, host, now, console, srv>>
  /\ Settle(localStorage)

\* getProjectDetails answers without a video, or rejects: logged only.
loadExistingVideoNone(c) ==
  /\ c \in calls /\ c.kind = "details"
  /\ calls' = calls \ {c}
  /\ UNCHANGED <<hookState, refs, host, browser, srv>>

\* loadExistingVideo after its await of getVideoTimeline; when the request
\* rejects (~ok) the stream url is built from the video id instead.
loadExistingVideoTimeline(c, ok) ==
  /\ c \in calls /\ c.kind = "detailsTimeline"
  /\ videoStreamUrl' = IF ok THEN c.vid ELSE "/api/videos/" \o c.vid \o "/stream"
  /\ calls' = calls \ {c}
  /\ UNCHANGED <<videoId, videoUrl, status, progress, currentStage, message, ideas,
                 error, refs, host, sockets, intervals, now, console, srv>>
  /\ Settle(localStorage)

\* ----------------------------------------------------------------- unmount
\* The cleanup of the unmount effect: the socket and the interval the refs
\* hold are closed and cleared; the refs keep their values. Continuations
\* that run afterwards still reach the refs, the sockets and the timers; what
\* they pass to the setters is rendered nowhere, and no effect runs again.
unmount ==
  /\ view = "mounted"
  /\ view' = "unmounted"
  /\ sockets' = IF wsRef # null THEN sockets \ {wsRef} ELSE sockets
  /\ intervals' = IF pollingIntervalRef # null THEN intervals \ {pollingIntervalRef}
                  ELSE intervals
  /\ UNCHANGED <<hookState, refs, projectId, stored, localStorage, now, console, calls, srv>>

\* One submission and everything that can follow it, with reset() callable
\* at any time. Once reset() has run and every response has arrived, the hook
\* is back in its initial state, so a submission made then adds no behaviour.
Next ==
  \/ reset
  \/ Submitted < 1 /\ submitVideo
  \/ \E c \in calls, wsOk \in BOOLEAN : submitVideoResolved(c, wsOk)
  \/ \E c \in calls : submitVideoRejected(c)
  \/ \E i \in intervals : pollTick(i)
  \/ \E c \in calls : pollStatusResolved(c)
  \/ \E c \in calls : pollStatusRejected(c)
  \/ \E c \in calls : pollIdeasResolved(c)
  \/ \E c \in calls : pollIdeasRejected(c)
  \/ \E s \in sockets, e \in StreamEvents : wsMessage(s, e)
  \/ \E s \in sockets : wsMessageUndecodable(s)
  \/ \E c \in calls : wsIdeasResolved(c)
  \/ \E c \in calls : wsIdeasRejected(c)
  \/ \E c \in calls : fetchVideoMetadataResolved(c)
  \/ \E c \in calls : fetchVideoMetadataRejected(c)
  \/ \E v \in DOMAIN srv : SrvAdvance(v)
  \/ \E v \in DOMAIN srv : SrvFail(v)

Spec == Init /\ [][Next]_vars

\* Up to MaxJobs submissions, a later one made while the earlier job's
\* channels and requests are still there; the jobs stay queued at the backend.
NextResubmit ==
  \/ reset
  \/ Submitted < MaxJobs /\ submitVideo
  \/ \E c \in calls, wsOk \in BOOLEAN : submitVideoResolved(c, wsOk)
  \/ \E c \in calls : submitVideoRejected(c)
  \/ \E i \in intervals : pollTick(i)
  \/ \E c \in calls : pollStatusResolved(c)
  \/ \E c \in calls : pollStatusRejected(c)
  \/ \E s \in sockets, e \in StreamEvents : wsMessage(s, e)
  \/ \E c \in calls : wsIdeasResolved(c)
  \/ \E c \in calls : wsIdeasRejected(c)
  \/ \E c \in calls : fetchVideoMetadataResolved(c)
  \/ \E c \in calls : fetchVideoMetadataRejected(c)

SpecResubmit == Init /\ [][NextResubmit]_vars

\* A submission whose stream never opens, left to the poller, with no reset().
NextPollOnly ==
  \/ Submitted < 1 /\ submitVideo
  \/ \E c \in calls : submitVideoResolved(c, FALSE)
  \/ \E i \in intervals : pollTick(i)
  \/ \E c \in calls : pollStatusResolved(c)
  \/ \E c \in calls : pollStatusRejected(c)
  \/ \E c \in calls : pollIdeasResolved(c)
  \/ \E c \in calls : pollIdeasRejected(c)
  \/ \E c \in calls : fetchVideoMetadataResolved(c)
  \/ \E c \in calls : fetchVideoMetadataRejected(c)
  \/ \E v \in DOMAIN srv : SrvAdvance(v)
  \/ \E v \in DOMAIN srv : SrvFail(v)

\* Scheduling: an active interval keeps firing, every request is answered,
\* status requests are answered with a status again and again, and the
\* pipeline keeps moving until the job is terminal. Whether an artifact
\* request succeeds is left open.
FairPollOnly ==
  /\ WF_vars(\E i \in intervals : pollTick(i))
  /\ SF_vars(\E c \in calls : pollStatusResolved(c))
  /\ WF_vars(\E c \in calls : pollIdeasResolved(c) \/ pollIdeasRejected(c))
  /\ WF_vars(\E c \in calls : fetchVideoMetadataResolved(c) \/ fetchVideoMetadataRejected(c))
  /\ WF_vars(\E v \in DOMAIN srv : SrvAdvance(v) \/ SrvFail(v))

SpecPollOnly == Init /\ [][NextPollOnly]_vars /\ FairPollOnly

\* The clock values a view is mounted at, the stored record being written
\* at time 0: one hour later, exactly 24 hours later, and just past that.
MountTimes == {60 * 60 * 1000, DayMs, DayMs + 1}

\* The jobs the backend may hold when a view is mounted.
MountJobs ==
  {[status |-> CanonicalOrder[2], progress |-> StagePercent(2)],
   [status |-> "COMPLETE", progress |-> 100],
   [status |-> "FAILED", progress |-> StagePercent(2)]}

\* The records that may lie under the key of scope p when a view is mounted
\* and the backend holds job: what the persist effect wrote for that job at an
\* earlier stage or at the stage the job is in (it writes the upper-case
\* terminal tokens it is given by loadExistingVideo), or a record naming
\* another scope, which the mount effect tests for: the store outlives the
\* page, and the editor page expects stale records of other projects under
\* the unscoped key.
MountRecords(p, job) ==
  {[videoId |-> VideoIdOf(1), videoUrl |-> "url", status |-> st,
    progress |-> IF st = job.status THEN job.progress ELSE StagePercent(2),
    currentStage |-> st, projectId |-> q, timestamp |-> 0] :
     st \in {CanonicalOrder[2], job.status}, q \in {p, "pB"}}

\* A view about to be mounted for scope pA or for no scope.
InitMount ==
  /\ videoId = null /\ videoUrl = null /\ videoStreamUrl = null
  /\ status = null /\ progress = 0 /\ currentStage = null
  /\ message = null /\ ideas = null /\ error = null
  /\ wsRef = null /\ pollingIntervalRef = null /\ videoIdRef = null
  /\ projectId \in {"pA", null} /\ view = "initial" /\ stored = NoRecord
  /\ sockets = {} /\ intervals = {}
  /\ now \in MountTimes /\ console = {}
  /\ calls = {}
  /\ \/ /\ srv = [v \in {} |-> 0]
        /\ localStorage = [k \in StorageKeys |-> NoRecord]
     \/ \E job \in MountJobs :
          /\ srv = (VideoIdOf(1) :> job)
          /\ \E r \in MountRecords(projectId, job) \cup {NoRecord} :
               localStorage = [k \in StorageKeys |->
                                 IF k = getStorageKey(projectId) THEN r ELSE NoRecord]

\* The life of one view: mounted, resuming from the store or the backend,
\* possibly submitting, reset or unmounted, with the requests, the poller and
\* the backend's pipeline running on.
NextMount ==
  \/ mount
  \/ unmount
  \/ view = "mounted" /\ reset
  \/ view = "mounted" /\ Submitted < 1 /\ submitVideo
  \/ \E c \in calls, wsOk \in BOOLEAN : submitVideoResolved(c, wsOk)
  \/ \E c \in calls : submitVideoRejected(c)
  \/ \E c \in calls, wsOk \in BOOLEAN : restoreStatusResolved(c, wsOk)
  \/ \E c \in calls : restoreRejected(c)
  \/ \E c \in calls : restoreIdeasResolved(c)
  \/ \E c \in calls : restoreTimelineResolved(c)
  \/ \E c \in calls, v \in DOMAIN srv, wsOk \in BOOLEAN : loadExistingVideoResolved(c, v, wsOk)
  \/ \E c \in calls : loadExistingVideoNone(c)
  \/ \E c \in calls, ok \in BOOLEAN : loadExistingVideoTimeline(c, ok)
  \/ \E i \in intervals : pollTick(i)
  \/ \E c \in calls : pollStatusResolved(c)
  \/ \E c \in calls : pollStatusRejected(c)
  \/ \E c \in calls : pollIdeasResolved(c)
  \/ \E c \in calls : pollIdeasRejected(c)
  \/ \E c \in calls : fetchVideoMetadataResolved(c)
  \/ \E c \in calls : fetchVideoMetadataRejected(c)
  \/ \E v \in DOMAIN srv : SrvAdvance(v)
  \/ \E v \in DOMAIN srv : SrvFail(v)

SpecMount == InitMount /\ [][NextMount]_vars

\* One view from its mount on, with every source of an error and every
\* transient failure: the mount paths, one submission, the poller, the stream
\* with well-formed and undecodable messages, and a pipeline that may fail;
\* no reset() and no unmount.
NextFaults ==
  \/ mount
  \/ view = "mounted" /\ Submitted < 1 /\ submitVideo
  \/ \E c \in calls, wsOk \in BOOLEAN : submitVideoResolved(c, wsOk)
  \/ \E c \in calls : submitVideoRejected(c)
  \/ \E c \in calls, wsOk \in BOOLEAN : restoreStatusResolved(c, wsOk)
  \/ \E c \in calls : restoreRejected(c)
  \/ \E c \in calls : restoreIdeasResolved(c)
  \/ \E c \in calls : restoreTimelineResolved(c)
  \/ \E c \in calls, v \in DOMAIN srv, wsOk \in BOOLEAN : loadExistingVideoResolved(c, v, wsOk)
  \/ \E c \in calls : loadExistingVideoNone(c)
  \/ \E c \in calls, ok \in BOOLEAN : loadExistingVideoTimeline(c, ok)
  \/ \E i \in intervals : pollTick(i)
  \/ \E c \in calls : pollStatusResolved(c)
  \/ \E c \in calls : pollStatusRejected(c)
  \/ \E s \in sockets, e \in StreamEvents : wsMessage(s, e)
  \/ \E s \in sockets : wsMessageUndecodable(s)
  \/ \E c \in calls : wsIdeasResolved(c)
  \/ \E c \in calls : wsIdeasRejected(c)
  \/ \E c \in calls : fetchVideoMetadataResolved(c)
  \/ \E c \in calls : fetchVideoMetadataRejected(c)
  \/ \E v \in DOMAIN srv : SrvFail(v)

SpecFaults == InitMount /\ [][NextFaults]_vars

\* A view of project pA that submits one video and, at any moment, is moved
\* to project pB by the page; project pB has no video of its own.
NextScope ==
  \/ projectId = "pA" /\ Submitted < 1 /\ submitVideo
  \/ \E c \in calls, wsOk \in BOOLEAN : submitVideoResolved(c, wsOk)
  \/ \E c \in calls : submitVideoRejected(c)
  \/ projectId = "pA" /\ changeScope("pB")
  \/ \E c \in calls, wsOk \in BOOLEAN : restoreStatusResolved(c, wsOk)
  \/ \E c \in calls : restoreRejected(c)
  \/ \E c \in calls : restoreIdeasResolved(c)
  \/ \E c \in calls : restoreTimelineResolved(c)
  \/ \E c \in calls : loadExistingVideoNone(c)
  \/ \E i \in intervals : pollTick(i)
  \/ \E c \in calls : pollStatusResolved(c)
  \/ \E c \in calls : pollStatusRejected(c)
  \/ \E c \in calls : pollIdeasResolved(c)
  \/ \E c \in calls : pollIdeasRejected(c)
  \/ \E v \in DOMAIN srv : SrvAdvance(v)
  \/ \E v \in DOMAIN srv : SrvFail(v)

SpecScope == Init /\ [][NextScope]_vars

\* ------------------------------------------------------------------ claims
\* Position of a stage token in the canonical order (0 when it has none);
\* the hook's own completion token stands at COMPLETE's position.
Rank(s) ==
  IF s = "complete" THEN Len(CanonicalOrder)
  ELSE IF \E i \in 1..Len(CanonicalOrder) : CanonicalOrder[i] = s
       THEN CHOOSE i \in 1..Len(CanonicalOrder) : CanonicalOrder[i] = s
       ELSE 0

\* Terminal stages, in either spelling the program stores.
IsTerminalStage(s) == s \in {"complete", "COMPLETE", "failed", "FAILED"}

\* A step in which the stream handler runs on an event of one of the types.
StreamStep(types) ==
  \E s \in sockets, e \in StreamEvents : e.type \in types /\ wsMessage(s, e)

\* A step in which a poll response is applied.
PollStep == \E c \in calls : pollStatusResolved(c)

\* C1: a `progress` or `stage_complete` event handled while a stage of the
\* canonical order is displayed never moves the stage to an earlier position.
C1_StageNeverRegresses ==
  [][(Rank(status) > 0 /\ StreamStep({"progress", "stage_complete"}))
       => Rank(status') >= Rank(status)]_vars

\* C2: whichever channel delivers it, an update that carries an earlier
\* canonical stage than the displayed one leaves the stage as it is.
C2_EarlierStageIgnored ==
  [][/\ \A c \in calls :
          (Rank(c.resp.status) > 0 /\ Rank(c.resp.status) < Rank(status)
             /\ pollStatusResolved(c)) => status' = status
     /\ \A s \in sockets, e \in StreamEvents :
          (e.type \in {"progress", "stage_complete"} /\ Rank(e.stage) < Rank(status)
             /\ wsMessage(s, e)) => status' = status]_vars

\* C3: once the stage is COMPLETE or FAILED, only reset() or a new submit()
\* changes it.
C3_TerminalAbsorbing ==
  [][(IsTerminalStage(status) /\ status' # status) => (reset \/ submitVideo)]_vars

\* C4: between a submit() and the next reset() or submit(), the displayed
\* percent never decreases.
C4_PercentNeverDecreases ==
  [][progress' >= progress \/ reset \/ submitVideo]_vars

\* A step in which a poll response reporting completion of job v is applied:
\* it issues the ideas-list request for v.
PollIssuesIdeasFetch(v) ==
  \E c \in calls : c.vid = v /\ c.resp.status = "complete" /\ pollStatusResolved(c)

\* A step in which a `complete` event is handled while job v is the tracked
\* one: it issues the ideas-list request for v.
StreamIssuesIdeasFetch(v) == videoIdRef = v /\ StreamStep({"complete"})

\* C5: once completion of the tracked job has been delivered (the stage shows
\* it), a completion delivered afterwards by the other channel, or by a
\* further poll, issues no second ideas-list request for that job. The stream
\* handler is the one that writes currentStage "complete".
C5_FetchOnce ==
  [][(videoId # null /\ status = "complete")
       => /\ ~PollIssuesIdeasFetch(videoId)
          /\ currentStage # "complete" => ~StreamIssuesIdeasFetch(videoId)]_vars

\* C6: the state the `complete` event leaves (stage COMPLETE, percent 100,
\* isComplete, not isProcessing) is final: no poll response delivered
\* afterwards changes it. Only the `complete` event writes currentStage
\* "complete".
C6_CompleteIsFinal ==
  [][(currentStage = "complete" /\ isComplete /\ progress = 100 /\ PollStep)
       => (isComplete' /\ ~isProcessing' /\ progress' = 100)]_vars

\* C7: when a tracked job shows a terminal stage and every request has been
\* answered, no stream is open and no poll interval is active.
C7_TerminalTearsDownChannels ==
  (videoId # null /\ IsTerminalStage(status) /\ calls = {})
    => (sockets = {} /\ intervals = {})

\* C8: when the ideas-list request that followed a polled COMPLETE is
\* answered, with ideas or with a failure, the poll interval is cleared.
C8_PollerStopsOnTerminal ==
  [][\A c \in calls : (pollIdeasResolved(c) \/ pollIdeasRejected(c))
       => (pollingIntervalRef' = null /\ c.vid \notin intervals')]_vars

\* C9: with a stream that never opened, once the job is tracked the poller
\* on its own brings the snapshot to COMPLETE or FAILED and stops.
C9_PollerAloneTerminates ==
  (videoId # null) ~> (IsTerminalStage(status) /\ intervals = {})

\* C10: reset() leaves no stream open, no poll interval active, no record
\* under the current scope key, and every field at its empty default.
C10_ResetClearsAll ==
  [][reset => /\ sockets' = {} /\ intervals' = {}
              /\ wsRef' = null /\ pollingIntervalRef' = null
              /\ localStorage'[getStorageKey(projectId)] = NoRecord
              /\ videoId' = null /\ status' = null /\ currentStage' = null
              /\ message' = null /\ error' = null /\ progress' = 0
              /\ ideas' = null /\ videoStreamUrl' = null]_vars

\* The state one call of reset() yields: every field at its default, both
\* handles empty, nothing stored under the current scope key.
AfterReset ==
  /\ videoId = null /\ videoUrl = null /\ videoStreamUrl = null
  /\ status = null /\ progress = 0 /\ currentStage = null
  /\ message = null /\ ideas = null /\ error = null
  /\ wsRef = null /\ pollingIntervalRef = null /\ videoIdRef = null
  /\ localStorage[getStorageKey(projectId)] = NoRecord

\* C11: reset() is idempotent: every call yields the AfterReset state, and a
\* call made in that state closes nothing, clears nothing and changes nothing.
C11_ResetIdempotent ==
  [][reset => (AfterReset' /\ (AfterReset => UNCHANGED vars))]_vars

\* reset() has run on a job that was tracked: a created job leaves videoId
\* only through reset().
C11_Witness == AfterReset /\ DOMAIN srv # {} /\ view = "mounted"

\* A step in which the response to a request of the hook is delivered to
\* its continuation.
ResponseStep ==
  \E c \in calls :
    \/ \E wsOk \in BOOLEAN : submitVideoResolved(c, wsOk)
    \/ submitVideoRejected(c)
    \/ pollStatusResolved(c) \/ pollStatusRejected(c)
    \/ pollIdeasResolved(c) \/ pollIdeasRejected(c)
    \/ wsIdeasResolved(c) \/ wsIdeasRejected(c)
    \/ fetchVideoMetadataResolved(c) \/ fetchVideoMetadataRejected(c)

\* C12: a response delivered while the state is the one reset() left (no
\* submit() since) changes no field and opens no stream or poll interval.
C12_LateResponseDiscarded ==
  [][(AfterReset /\ ResponseStep)
       => (hookState' = hookState /\ sockets' = sockets /\ intervals' = intervals)]_vars

\* C13: once the view is unmounted, no stream is open and no poll interval
\* is active, whatever request completes afterwards.
C13_NoChannelAfterUnmount ==
  view = "unmounted" => (sockets = {} /\ intervals = {})

\* C14: at no moment do two streams or two poll intervals exist.
C14_OneJobTracked ==
  Cardinality(sockets) <= 1 /\ Cardinality(intervals) <= 1

\* The record under the current scope key.
Record == localStorage[getStorageKey(projectId)]

\* The mount effect left the view as it was constructed: no field set, no
\* handle, no channel, no status pull issued.
NothingResumed ==
  /\ videoId = null /\ videoIdRef = null /\ videoUrl = null
  /\ status = null /\ progress = 0 /\ currentStage = null /\ message = null
  /\ wsRef = null /\ pollingIntervalRef = null
  /\ sockets = {} /\ intervals = {}
  /\ \A c \in calls : c.kind # "restoreStatus"

\* C15: mounting over a record more than 24 hours old removes the record,
\* applies none of its fields, starts no status pull and no channel from it,
\* and leaves the initial no-job view.
C15_StaleRecordDiscarded ==
  [][(mount /\ Record # NoRecord /\ now - Record.timestamp > DayMs)
       => (Record' = NoRecord /\ NothingResumed')]_vars

\* The view was mounted over a record of its own scope, non-terminal, more
\* than 24 hours old: the record is gone and the backend query is under way.
C15_Witness ==
  /\ view = "mounted" /\ stored # NoRecord /\ now - stored.timestamp > DayMs
  /\ stored.projectId = projectId /\ stored.status \notin {"COMPLETE", "FAILED"}
  /\ Record = NoRecord /\ status = null

\* C16: mounting over a record whose projectId differs from the current scope
\* removes the record and applies neither its job id nor its stage or percent.
C16_ForeignRecordDiscarded ==
  [][(mount /\ Record # NoRecord /\ Record.projectId # projectId)
       => (Record' = NoRecord /\ NothingResumed')]_vars

\* The view was mounted over a fresh, non-terminal record of another scope.
C16_Witness ==
  /\ view = "mounted" /\ stored # NoRecord /\ stored.projectId # projectId
  /\ now - stored.timestamp <= DayMs /\ stored.status \notin {"COMPLETE", "FAILED"}
  /\ Record = NoRecord /\ videoId = null

\* C17: mounting over a record whose stage is COMPLETE or FAILED removes the
\* record and resumes nothing from it; mounting over a record that is fresh,
\* of the current scope and non-terminal resumes it: its job id is applied and
\* the status pull issued.
C17_TerminalRecordCleared ==
  [][(mount /\ Record # NoRecord)
       => /\ IsTerminalStage(Record.status) => (Record' = NoRecord /\ NothingResumed')
          /\ (/\ ~IsTerminalStage(Record.status)
              /\ now - Record.timestamp <= DayMs
              /\ Record.projectId = projectId)
             => (/\ videoId' = Record.videoId
                 /\ \E c \in calls' : c.kind = "restoreStatus" /\ c.vid = Record.videoId)]_vars

\* The view was mounted over a fresh record of its own scope with a terminal
\* stage.
C17_Witness ==
  /\ view = "mounted" /\ stored # NoRecord /\ IsTerminalStage(stored.status)
  /\ stored.projectId = projectId /\ now - stored.timestamp <= DayMs
  /\ Record = NoRecord /\ videoId = null

\* A record the mount effect resumes: present, of the current scope, at most
\* 24 hours old, non-terminal.
IsValidRecord(r) ==
  /\ r # NoRecord /\ r.projectId = projectId
  /\ now - r.timestamp <= DayMs /\ ~IsTerminalStage(r.status)

\* C18: mounting over a valid record resumes its job and issues the status
\* pull in the same turn; when the pull returns, stage and percent are the
\* pulled values, and for a non-terminal pulled stage the poll interval is
\* started and the stream opened for that job (the stream when the socket
\* can be opened).
C18_ResumePullsStatus ==
  [][/\ (mount /\ IsValidRecord(Record))
          => (/\ videoId' = Record.videoId
              /\ \E c \in calls' : c.kind = "restoreStatus" /\ c.vid = Record.videoId)
     /\ \A c \in calls, wsOk \in BOOLEAN :
          restoreStatusResolved(c, wsOk)
            => (/\ status' = c.resp.status /\ progress' = c.resp.progress
                /\ ~IsTerminalStage(c.resp.status)
                     => (/\ pollingIntervalRef' = c.vid /\ c.vid \in intervals'
                         /\ wsOk => (wsRef' = c.vid /\ c.vid \in sockets')))]_vars

\* A resumed job whose pull returned a later, non-terminal stage than the
\* record held: the pulled stage and percent are displayed and both channels
\* run.
C18_Witness ==
  /\ view = "mounted" /\ IsValidRecord(stored) /\ videoId = stored.videoId
  /\ status # stored.status /\ progress # stored.progress
  /\ status = srv[videoId].status /\ progress = srv[videoId].progress
  /\ wsRef = videoId /\ pollingIntervalRef = videoId
  /\ videoId \in sockets /\ videoId \in intervals /\ calls = {}
  /\ message = "msg" /\ videoStreamUrl = null

\* The two resumption paths, as the requests they leave in flight after the
\* mount effect ran.
RestorePathRan == \E c \in calls : c.kind = "restoreStatus"
QueryPathRan == \E c \in calls : c.kind = "details"

\* C19: on each mount exactly one resumption path executes: the persisted
\* record's when a valid record lies under the scope key, the backend query
\* otherwise.
C19_ExactlyOnePath ==
  [][mount => IF IsValidRecord(Record)
              THEN RestorePathRan' /\ ~QueryPathRan'
              ELSE QueryPathRan' /\ ~RestorePathRan']_vars

\* C19 as amended: the two paths never both run; the persisted record's path
\* runs exactly when a valid record lies under the scope key, and the backend
\* query exactly when there is none and the scope is a project.
C19_AtMostOnePath ==
  [][mount => /\ ~(RestorePathRan' /\ QueryPathRan')
              /\ RestorePathRan' <=> IsValidRecord(Record)
              /\ QueryPathRan' <=> (~IsValidRecord(Record) /\ projectId # null)]_vars

\* The view was mounted over a record that is not valid and the backend
\* query is under way in its place.
C19_Witness ==
  /\ view = "mounted" /\ stored # NoRecord /\ ~IsValidRecord(stored)
  /\ QueryPathRan /\ ~RestorePathRan /\ videoId = null

\* C20: in a mounted view a record lies under the current scope key exactly
\* when a job id is known and the stage is set and non-terminal.
C20_RecordIffTrackedNonTerminal ==
  view = "mounted"
    => (Record # NoRecord
          <=> (videoId # null /\ status # null /\ ~IsTerminalStage(status)))

\* C22: when the create-job request fails, the stage becomes FAILED and the
\* error field carries a message, and no stream and no poll interval is
\* opened for the submission.
C22_SubmitFailureNoChannel ==
  [][\A c \in calls :
       submitVideoRejected(c)
         => (/\ status' = "failed" /\ error' # null
             /\ sockets' = sockets /\ intervals' = intervals
             /\ wsRef' = wsRef /\ pollingIntervalRef' = pollingIntervalRef)]_vars

\* A submission failed: stage FAILED, the catch's message in the error field,
\* no job id, no channel.
C22_Witness ==
  /\ status = "failed" /\ error = "Failed to submit video" /\ videoId = null
  /\ sockets = {} /\ intervals = {} /\ wsRef = null /\ pollingIntervalRef = null
  /\ calls = {}

\* C27: a stream message that fails to decode changes no field, leaves the
\* connection open, and the handler still runs on the well-formed events
\* that follow on that connection.
C27_DecodeFailureDropped ==
  [][\A s \in sockets :
       wsMessageUndecodable(s)
         => (/\ hookState' = hookState /\ calls' = calls /\ refs' = refs
             /\ localStorage' = localStorage
             /\ sockets' = sockets /\ intervals' = intervals)]_vars

\* A message failed to decode on the tracked job's connection, which is
\* still open, and the job has moved on to a later stage.
C27_Witness ==
  /\ "Failed to parse WebSocket message:" \in console
  /\ videoId # null /\ wsRef = videoId /\ wsRef \in sockets
  /\ status = CanonicalOrder[MaxStage] /\ progress = StagePercent(MaxStage)

\* C28: a failed status pull changes no field and leaves the poll interval
\* running, so that the next tick pulls again.
C28_FailedPollKeepsPolling ==
  [][\A c \in calls :
       pollStatusRejected(c)
         => (/\ hookState' = hookState
             /\ intervals' = intervals /\ pollingIntervalRef' = pollingIntervalRef
             /\ c.vid \in intervals => c.vid \in intervals')]_vars

\* A pull has failed and the interval it belongs to has fired again: the
\* next pull is under way.
C28_Witness ==
  /\ "Failed to poll status:" \in console
  /\ pollingIntervalRef # null /\ pollingIntervalRef \in intervals
  /\ \E c \in calls : c.kind = "status" /\ c.vid = pollingIntervalRef

\* C29: submit() resets error, percent and artifacts and sets the stage to
\* PENDING without opening a channel; the continuation that receives the job
\* id stores it and only then opens the stream and starts the poller, for
\* that id; no channel exists for a job the backend has not yet returned.
C29_ChannelsAfterJobId ==
  [][/\ submitVideo
          => (/\ error' = null /\ progress' = 0 /\ ideas' = null
              /\ videoStreamUrl' = null /\ status' = "PENDING"
              /\ sockets' = sockets /\ intervals' = intervals /\ refs' = refs)
     /\ \A c \in calls, wsOk \in BOOLEAN :
          submitVideoResolved(c, wsOk)
            => (/\ videoId' \in DOMAIN srv' \ DOMAIN srv
                /\ videoIdRef' = videoId'
                /\ sockets' \ sockets \subseteq {videoId'}
                /\ intervals' \ intervals = {videoId'})
     /\ sockets' \subseteq DOMAIN srv' /\ intervals' \subseteq DOMAIN srv']_vars

\* A further submission is in flight while the previous job is tracked: the
\* derived fields are reset and the only channel is the previous job's.
C29_Witness ==
  /\ \E c \in calls : c.kind = "submit"
  /\ status = "PENDING" /\ progress = 0 /\ error = null /\ ideas = null
  /\ videoStreamUrl = null
  /\ videoId # null /\ intervals = {videoId} /\ sockets \subseteq {videoId}

\* The requests a step issues.
Issued == calls' \ calls

\* C26: an ideas-list request is issued for a job only on a report of that
\* job's completion: the backend stores COMPLETE for it, or a `complete`
\* event is being handled on the stream opened for it.
C26_IdeasOnlyWhenComplete ==
  [][\A c \in Issued :
       c.kind \in {"ideas", "restoreIdeas"}
         => \/ srv[c.vid].status = "COMPLETE"
            \/ \E e \in StreamEvents : e.type = "complete" /\ wsMessage(c.vid, e)]_vars

\* C30: the artifact requests issued while a `video_ready` or `complete`
\* event of a stream is handled carry the id of the job the stream was
\* opened for.
C30_FetchForStreamsJob ==
  [][\A s \in sockets, e \in StreamEvents :
       (e.type \in {"video_ready", "complete"} /\ wsMessage(s, e))
         => \A c \in Issued : c.vid = s]_vars

\* What a step that opens the channels of job vid leaves when the socket
\* could not be opened: the poller started for vid, no socket and no stream
\* handle gained, the stage not FAILED, the error field untouched.
PollingOnly(vid) ==
  /\ pollingIntervalRef' = vid /\ vid \in intervals'
  /\ wsRef' = wsRef /\ sockets' = sockets
  /\ ~IsTerminalStage(status') /\ error' = error

\* C23: when the stream cannot be opened, in submit() or in either mount
\* path, the job is left to the poller.
C23_OpenFailureFallsBack ==
  [][\A c \in calls :
       /\ submitVideoResolved(c, FALSE) => PollingOnly(videoId')
       /\ (restoreStatusResolved(c, FALSE) /\ ~IsTerminalStage(c.resp.status))
            => PollingOnly(c.vid)
       /\ \A v \in DOMAIN srv :
            (loadExistingVideoResolved(c, v, FALSE) /\ ~IsTerminalStage(srv[v].status))
              => PollingOnly(v)]_vars

\* A tracked, non-terminal job with the poller running, no stream handle and
\* no socket, and no error shown.
C23_Witness ==
  /\ videoId # null /\ pollingIntervalRef = videoId /\ videoId \in intervals
  /\ wsRef = null /\ sockets = {} /\ error = null
  /\ status # null /\ ~IsTerminalStage(status)

\* A step that reports a job-fatal condition or a failed submission: an
\* `error` event, a polled, pulled or queried FAILED status, a rejected
\* create-job request.
FatalStep ==
  \/ StreamStep({"error"})
  \/ \E c \in calls : c.resp.status = "failed" /\ pollStatusResolved(c)
  \/ \E c \in calls, wsOk \in BOOLEAN :
       c.resp.status = "failed" /\ restoreStatusResolved(c, wsOk)
  \/ \E c \in calls, v \in DOMAIN srv, wsOk \in BOOLEAN :
       srv[v].status = "FAILED" /\ loadExistingVideoResolved(c, v, wsOk)
  \/ \E c \in calls : submitVideoRejected(c)

\* C24: the error field is given a message only by a step that reports a
\* job-fatal condition or a failed submission.
C24_ErrorOnlyWhenFatal ==
  [][(error' # null /\ error' # error) => FatalStep]_vars

\* A view that discarded the record it found, could not open the stream and
\* had a status pull fail, and shows no error.
C24_Witness ==
  /\ view = "mounted" /\ stored # NoRecord /\ ~IsValidRecord(stored)
  /\ "Failed to poll status:" \in console
  /\ videoId # null /\ pollingIntervalRef = videoId /\ wsRef = null
  /\ error = null

\* C25: isProcessing holds exactly when the stage is set and is neither
\* COMPLETE nor FAILED, and isComplete exactly when the stage is COMPLETE, in
\* whichever spelling the stage received the token.
C25_FlagsFollowStage ==
  /\ isProcessing <=> (status # null /\ ~IsTerminalStage(status))
  /\ isComplete <=> status \in {"complete", "COMPLETE"}

\* C21: when the scope changes to q while a job is tracked, no record of that
\* job comes to stand under q's key and the resumption for q does not pull
\* that job's status to restore it.
C21_ScopesIsolated ==
  [][\A q \in Scopes :
       (changeScope(q) /\ videoId # null)
         => /\ localStorage'[getStorageKey(q)] # NoRecord
                 => localStorage'[getStorageKey(q)].videoId # videoId
            /\ ~\E c \in Issued : c.kind = "restoreStatus" /\ c.vid = videoId]_vars

C32_VideoReadyOnlyFetches ==
  [][\A s \in sockets, e \in StreamEvents :
       (e.type = "video_ready" /\ wsMessage(s, e))
         => /\ UNCHANGED <<videoId, videoUrl, videoStreamUrl, status, progress,
                           currentStage, ideas, error>>
            /\ UNCHANGED <<refs, host, sockets, intervals, localStorage>>
            /\ message' = e.message
            /\ Issued \subseteq {TimelineCall(videoId)}
            /\ videoId # null => TimelineCall(videoId) \in calls'
            /\ calls \subseteq calls']_vars

\* The metadata fetch is in flight for a job that is still PENDING on both
\* sides, with the record of that stage in the store and no artifact
\* requested.
C32_Witness ==
  /\ videoId # null /\ TimelineCall(videoId) \in calls
  /\ status = "PENDING" /\ progress = 0 /\ srv[videoId].status = "PENDING"
  /\ ideas = null /\ videoStreamUrl = null /\ error = null
  /\ ~\E c \in calls : c.kind = "ideas"
  /\ Record.videoId = videoId /\ Record.status = "PENDING"

\* C33: in a mounted view, every step that changes the stage or the percent
\* and leaves a job with a known id in a non-terminal stage leaves the record
\* under the current scope key with that job id, stage and percent.
C33_RecordMirrorsSnapshot ==
  [][(/\ <<status', progress'>> # <<status, progress>>
      /\ view' = "mounted"
      /\ videoId' # null /\ status' # null /\ ~IsTerminalStage(status'))
       => LET r == localStorage'[getStorageKey(projectId')]
          IN r.videoId = videoId' /\ r.status = status' /\ r.progress = progress']_vars

\* A job that was not resumed from the store is shown in the last stage of
\* the pipeline at that stage's percent, and the record says the same.
C33_Witness ==
  /\ view = "mounted" /\ stored = NoRecord
  /\ videoId # null /\ status = CanonicalOrder[MaxStage]
  /\ progress = StagePercent(MaxStage)
  /\ Record.videoId = videoId /\ Record.status = status /\ Record.progress = progress

\* C34: a poll response in TRANSCRIBING has the playback-metadata request of
\* its job in flight afterwards when no stream url is held, and issues
\* nothing when one is held; the answer to a metadata request changes
\* neither stage nor percent.
C34_PrefetchOnlyWithoutUrl ==
  [][\A c \in calls :
       /\ (c.resp.current_stage = "TRANSCRIBING" /\ pollStatusResolved(c))
            => /\ videoStreamUrl = null => TimelineCall(c.vid) \in calls'
               /\ videoStreamUrl # null => Issued = {}
               /\ Issued \subseteq {TimelineCall(c.vid)}
       /\ (fetchVideoMetadataResolved(c) \/ fetchVideoMetadataRejected(c))
            => UNCHANGED <<status, progress>>]_vars

\* The stream url has been obtained in TRANSCRIBING and a further poll
\* response of that stage is about to be applied.
C34_Witness ==
  /\ videoId # null /\ videoStreamUrl = videoId /\ status = "TRANSCRIBING"
  /\ \E c \in calls : /\ c.kind = "status" /\ c.vid = videoId
                      /\ c.resp.current_stage = "TRANSCRIBING"
  /\ ~\E c \in calls : c.kind = "timeline"

\* C35: in a mounted view that shows a non-terminal stage as processing, with
\* no create-job request, status pull of the resumption or project query
\* awaiting its answer, a poll interval of the displayed job is active.
C35_ProcessingHasPoller ==
  (/\ view = "mounted"
   /\ isProcessing /\ ~IsTerminalStage(status)
   /\ ~\E c \in calls : c.kind \in {"submit", "restoreStatus", "details"})
    => (videoId # null /\ videoId \in intervals)

\* C36: while a job is tracked, a poll response for another job and an event
\* of another job's stream change none of stage, percent, message, error,
\* ideas and stream url.
C36_ForeignUpdatesIgnored ==
  [][/\ \A c \in calls :
          (videoId # null /\ c.vid # videoId /\ pollStatusResolved(c))
            => UNCHANGED <<status, progress, currentStage, message, error, ideas,
                           videoStreamUrl>>
     /\ \A s \in sockets, e \in StreamEvents :
          (videoId # null /\ s # videoId /\ wsMessage(s, e))
            => UNCHANGED <<status, progress, currentStage, message, error, ideas,
                           videoStreamUrl>>]_vars

\* C37: the error field holds a message only while the stage is FAILED, in
\* either spelling.
C37_ErrorOnlyWhenFailed ==
  error # null => status \in {"failed", "FAILED"}

\* C38: when the scope changes to q while a job is tracked, that job's
\* stream is closed and its poll interval cleared by the step that starts
\* the resumption for q.
C38_ScopeChangeRetiresChannels ==
  [][\A q \in Scopes :
       (changeScope(q) /\ videoId # null)
         => (videoId \notin sockets' /\ videoId \notin intervals')]_vars
====
